---- MODULE Spec2Model ----
(***************************************************************************)
(* A model of prettyplots/plot.py: the parameter normalisation, the draw    *)
(* dispatch, the decoration and the output of single_plot, single_imshow   *)
(* and single_hist, and the state of pyplot that their calls leave behind. *)
(*                                                                         *)
(* Python values are records [t, n, s, l]: t is the type tag, n a number,  *)
(* s the characters of a str, l the items of a list.  A str is indexable   *)
(* (s[i] is the one-character str), exactly as in Python.                  *)
(***************************************************************************)
EXTENDS Integers, Sequences, FiniteSets, TLC

VARIABLES
    fn,          \* the plotting function that was called ("" before the call)
    pc,          \* position inside the running call
    err,         \* the exception that ended the call ("" when none)
    params,      \* the parameter object handed to the call
    loc,         \* the local variables of the call after normalisation
    idx,         \* loop index of the running draw loop
    draws,       \* the mark-adding calls issued so far, in order
    calls,       \* every call to the rendering library, by name, in order
    usetex,      \* mpl.rcParams['text.usetex']
    openFigs,    \* number of figures open in pyplot's figure registry
    axes,        \* what the decoration calls of the running call set on its axes
    exports,     \* the savefig calls of the running call
    ncalls,      \* number of plotting calls made so far
    given,       \* the values the caller gave to the attributes of the parameter
                 \* object that a call has assigned since, by attribute
    defaults,    \* the default-argument objects of the three __init__ functions that
                 \* were changed in place since the class was defined, by class and option
    objs,        \* the parameter objects the caller has constructed and kept
    plot_handles \* the containers the errorbar calls of the running call returned

vars == <<fn, pc, err, params, loc, idx, draws, calls, usetex, openFigs, axes, exports,
          ncalls, given, defaults, objs, plot_handles>>

----------------------------------------------------------------------------
(* Bounds of the model *)

MaxLeft == 2        \* most series in the left group (or in a flat collection)
MaxRight == 1       \* most series in the right group
MaxListLen == 3     \* longest flat option list
MaxSets == 2        \* most data sets of one histogram
MaxBins == 2        \* largest integer bin count
MaxDim == 2         \* most rows, and most columns, of an image
MaxTicks == 3       \* most ticks, and most tick labels, given for an image axis
MaxCalls == 2       \* most plotting calls of one run
MaxLines == 2       \* most vertical, and most horizontal, lines of a plot
MaxObjs == 2        \* most parameter objects the caller keeps
MaxMutations == 2   \* most option values the caller changes in place

----------------------------------------------------------------------------
(* Python values *)

NoneV == [t |-> "None", n |-> 0, s |-> <<>>, l |-> <<>>]

StrV(cs) == [t |-> "str", n |-> 0, s |-> cs, l |-> <<>>]

ListV(items) == [t |-> "list", n |-> 0, s |-> <<>>, l |-> items]

BoolV(b) == [t |-> "bool", n |-> IF b THEN 1 ELSE 0, s |-> <<>>, l |-> <<>>]

XYData(i) == [t |-> "XYData", n |-> i, s |-> <<>>, l |-> <<>>]

FloatV(x) == [t |-> "float", n |-> x, s |-> <<>>, l |-> <<>>]

IntV(k) == [t |-> "int", n |-> k, s |-> <<>>, l |-> <<>>]

NdArray(items) == [t |-> "ndarray", n |-> 0, s |-> <<>>, l |-> items]

XData(xs) == [t |-> "XData", n |-> 0, s |-> <<>>, l |-> xs]

\* a dict, its items <<key, value>> in insertion order
DictV(items) == [t |-> "dict", n |-> 0, s |-> <<>>, l |-> items]

IsStr(v) == v.t = "str"

\* len(v) of a str, a list or an array
PyLen(v) == IF v.t = "str" THEN Len(v.s) ELSE Len(v.l)

\* v[i] does not raise (i is a Python index, from 0)
HasItem(v, i) == v.t \in {"str", "list", "ndarray"} /\ i >= 0 /\ i < PyLen(v)

\* v[i]
GetItem(v, i) == IF v.t = "str" THEN StrV(<<v.s[i + 1]>>) ELSE v.l[i + 1]

\* [x] * n
Repeat(x, n) == ListV([i \in 1..n |-> x])

\* list(zip(a, b)): pairs up to the end of the shorter argument
Zip(a, b) ==
    LET n == IF PyLen(a) < PyLen(b) THEN PyLen(a) ELSE PyLen(b)
    IN  [i \in 1..n |-> <<a.l[i], b.l[i]>>]

----------------------------------------------------------------------------
(* Normalisation in single_plot *)

\* PartitionSets with the two groups of a pair taken in the wrong order
PartitionSetsSwapped(d) ==
    IF ~HasItem(d, 0) THEN
        [err |-> "IndexError", left |-> ListV(<<>>), right |-> ListV(<<>>)]
    ELSE IF GetItem(d, 0).t \notin {"str", "list"} THEN
        [err |-> "", left |-> d, right |-> ListV(<<>>)]
    ELSE IF ~HasItem(d, 1) THEN
        [err |-> "IndexError", left |-> ListV(<<>>), right |-> ListV(<<>>)]
    ELSE IF GetItem(d, 1).t \notin {"str", "list"} THEN
        [err |-> "", left |-> d, right |-> ListV(<<>>)]
    ELSE
        [err |-> "", left |-> GetItem(d, 1), right |-> GetItem(d, 0)]

\* the try/except that splits xy_data_sets into the two groups
PartitionSets(d) ==
    IF ~HasItem(d, 0) THEN
        [err |-> "IndexError", left |-> ListV(<<>>), right |-> ListV(<<>>)]
    ELSE IF GetItem(d, 0).t \notin {"str", "list"} THEN
        [err |-> "", left |-> d, right |-> ListV(<<>>)]
    ELSE IF ~HasItem(d, 1) THEN
        [err |-> "IndexError", left |-> ListV(<<>>), right |-> ListV(<<>>)]
    ELSE IF GetItem(d, 1).t \notin {"str", "list"} THEN
        [err |-> "", left |-> d, right |-> ListV(<<>>)]
    ELSE
        [err |-> "", left |-> GetItem(d, 0), right |-> GetItem(d, 1)]

\* legend_labels -> no_legend, left_legend_labels, right_legend_labels
ResolveLabels(v, L, R) ==
    IF v = NoneV THEN
        [err |-> "", none |-> TRUE, left |-> Repeat(NoneV, L), right |-> Repeat(NoneV, R)]
    ELSE IF ~HasItem(v, 0) THEN
        [err |-> "IndexError", none |-> FALSE, left |-> ListV(<<>>), right |-> ListV(<<>>)]
    ELSE IF IsStr(GetItem(v, 0)) THEN
        [err |-> "", none |-> FALSE, left |-> v, right |-> ListV(<<>>)]
    ELSE IF ~HasItem(v, 1) THEN
        [err |-> "IndexError", none |-> FALSE, left |-> ListV(<<>>), right |-> ListV(<<>>)]
    ELSE
        [err |-> "", none |-> FALSE, left |-> GetItem(v, 0), right |-> GetItem(v, 1)]

\* ResolveStyle with a single string broadcast to the left group only
ResolveStyleLeftOnly(v, L, R) ==
    IF v = NoneV THEN
        [err |-> "", left |-> Repeat(NoneV, L), right |-> Repeat(NoneV, R)]
    ELSE IF IsStr(v) THEN
        [err |-> "", left |-> Repeat(v, L), right |-> Repeat(NoneV, R)]
    ELSE IF ~HasItem(v, 0) THEN
        [err |-> "IndexError", left |-> ListV(<<>>), right |-> ListV(<<>>)]
    ELSE IF IsStr(GetItem(v, 0)) THEN
        [err |-> "", left |-> v, right |-> ListV(<<>>)]
    ELSE IF ~HasItem(v, 1) THEN
        [err |-> "IndexError", left |-> ListV(<<>>), right |-> ListV(<<>>)]
    ELSE
        [err |-> "", left |-> GetItem(v, 0), right |-> GetItem(v, 1)]

\* ResolveStyle with the right list of a pair read from the pair's first list
ResolveStyleBothFromFirst(v, L, R) ==
    IF v = NoneV THEN
        [err |-> "", left |-> Repeat(NoneV, L), right |-> Repeat(NoneV, R)]
    ELSE IF IsStr(v) THEN
        [err |-> "", left |-> Repeat(v, L), right |-> Repeat(v, R)]
    ELSE IF ~HasItem(v, 0) THEN
        [err |-> "IndexError", left |-> ListV(<<>>), right |-> ListV(<<>>)]
    ELSE IF IsStr(GetItem(v, 0)) THEN
        [err |-> "", left |-> v, right |-> ListV(<<>>)]
    ELSE IF ~HasItem(v, 1) THEN
        [err |-> "IndexError", left |-> ListV(<<>>), right |-> ListV(<<>>)]
    ELSE
        [err |-> "", left |-> GetItem(v, 0), right |-> GetItem(v, 0)]

\* colors / markers / linestyles -> the left and the right list
ResolveStyle(v, L, R) ==
    IF v = NoneV THEN
        [err |-> "", left |-> Repeat(NoneV, L), right |-> Repeat(NoneV, R)]
    ELSE IF IsStr(v) THEN
        [err |-> "", left |-> Repeat(v, L), right |-> Repeat(v, R)]
    ELSE IF ~HasItem(v, 0) THEN
        [err |-> "IndexError", left |-> ListV(<<>>), right |-> ListV(<<>>)]
    ELSE IF IsStr(GetItem(v, 0)) THEN
        [err |-> "", left |-> v, right |-> ListV(<<>>)]
    ELSE IF ~HasItem(v, 1) THEN
        [err |-> "IndexError", left |-> ListV(<<>>), right |-> ListV(<<>>)]
    ELSE
        [err |-> "", left |-> GetItem(v, 0), right |-> GetItem(v, 1)]

\* scatterplot -> <<left_scatterplot, right_scatterplot>>
ResolveScatter(v) ==
    IF v.t = "bool" THEN <<v.n = 1, v.n = 1>>
    ELSE <<GetItem(v, 0).n = 1, GetItem(v, 1).n = 1>>

\* y_label -> left_y_label, right_y_label
ResolveYLabel(v) ==
    IF IsStr(v) THEN
        [err |-> "", left |-> v, right |-> NoneV]
    ELSE IF ~HasItem(v, 0) \/ ~HasItem(v, 1) THEN
        [err |-> "IndexError", left |-> NoneV, right |-> NoneV]
    ELSE
        [err |-> "", left |-> GetItem(v, 0), right |-> GetItem(v, 1)]

\* major_ytick_spacing / minor_ytick_spacing -> the left and the right spacing:
\* v[0][0] raises TypeError, which is caught, when v or v[0] is a float
ResolveSpacing(v) ==
    IF v = NoneV THEN
        [err |-> "", left |-> NoneV, right |-> NoneV]
    ELSE IF v.t = "float" THEN
        [err |-> "", left |-> v, right |-> v]
    ELSE IF ~HasItem(v, 0) THEN
        [err |-> "IndexError", left |-> NoneV, right |-> NoneV]
    ELSE IF GetItem(v, 0).t = "float" THEN
        [err |-> "", left |-> v, right |-> v]
    ELSE IF ~HasItem(GetItem(v, 0), 0) \/ ~HasItem(v, 1) THEN
        [err |-> "IndexError", left |-> NoneV, right |-> NoneV]
    ELSE
        [err |-> "", left |-> GetItem(v, 0), right |-> GetItem(v, 1)]

\* the first exception among the normalisation steps, in program order
FirstErr(es) ==
    IF \E i \in 1..Len(es) : es[i] # ""
    THEN es[CHOOSE i \in 1..Len(es) : es[i] # "" /\ \A j \in 1..(i - 1) : es[j] = ""]
    ELSE ""

----------------------------------------------------------------------------
(* The inputs of a single_plot call *)

Strs == {<<"r">>, <<"g", "b">>}

\* the lists of at most n strings
StrLists(n) == UNION {{ListV([i \in 1..k |-> StrV(f[i])]) : f \in [1..k -> Strs]} : k \in 0..n}

\* what colors, markers, linestyles and legend_labels range over: omitted, a
\* single string, a flat list of strings, a pair [left_list, right_list]
StyleValues ==
    {NoneV}
    \cup {StrV(cs) : cs \in Strs}
    \cup StrLists(MaxListLen)
    \cup {ListV(<<a, b>>) : a \in StrLists(MaxLeft), b \in StrLists(MaxRight)}

\* a flat collection of series, or the pair [left series, right series]
DataValues ==
    {ListV([i \in 1..k |-> XYData(i)]) : k \in 0..MaxLeft}
    \cup {ListV(<<ListV([i \in 1..k |-> XYData(i)]), ListV([j \in 1..m |-> XYData(k + j)])>>) :
             k \in 0..MaxLeft, m \in 0..MaxRight}

\* one flag for both groups, or a flag per group
ScatterValues ==
    {BoolV(b) : b \in BOOLEAN}
    \cup {ListV(<<BoolV(b), BoolV(~b)>>) : b \in BOOLEAN}

StyleNames == {"colors", "markers", "linestyles", "legend_labels"}

\* what the options beside the one under study range over: omitted or, where
\* the option is documented to take one, a single string
PlainValues(b) == IF b = "legend_labels" THEN {NoneV} ELSE {NoneV, StrV(<<"r">>)}

\* the plain values of the options beside the one under study
PlainChoices ==
    {g \in [StyleNames -> {NoneV, StrV(<<"r">>)}] : \A b \in StyleNames : g[b] \in PlainValues(b)}

\* y_label: a single string, or a label per y-axis
YLabelValues == {StrV(<<>>), StrV(<<"E">>), ListV(<<StrV(<<"E">>), StrV(<<"F">>)>>)}

\* major_ytick_spacing, minor_ytick_spacing: omitted, a float, or two floats
SpacingValues == {NoneV, FloatV(2), ListV(<<FloatV(2), FloatV(5)>>)}

\* filename: None, or a path
FilenameValues == {NoneV, StrV(<<"f">>)}

\* vlines, hlines: the positions of at most MaxLines lines
LineValues == {ListV([i \in 1..k |-> FloatV(i)]) : k \in 0..MaxLines}

\* the keyword arguments {"lw": k}
KwargsOf(k) == DictV(<<<<"lw", IntV(k)>>>>)

\* vline_kwargs_set, hline_kwargs_set: omitted, or a list of dicts
KwargsSetValues == {NoneV} \cup {ListV([i \in 1..k |-> KwargsOf(i)]) : k \in 0..MaxLines}

\* the defaults of y_label, the tick spacings, the lines and their keyword
\* arguments (vline_kwargs_set of SinglePlotParams, vline_kwargs of
\* SingleImshowParams), filename, img_fmt and show
DefaultOptions ==
    [y_label |-> StrV(<<>>), major_ytick_spacing |-> NoneV, minor_ytick_spacing |-> NoneV,
     vlines |-> ListV(<<>>), hlines |-> ListV(<<>>),
     vline_kwargs_set |-> NoneV, hline_kwargs_set |-> NoneV,
     vline_kwargs |-> DictV(<<>>), hline_kwargs |-> DictV(<<>>),
     filename |-> NoneV, img_fmt |-> StrV(<<"p", "d", "f">>), show |-> BoolV(TRUE)]

\* the defaults with the y-axis options given
AxisOptions ==
    {[DefaultOptions EXCEPT !.y_label = y, !.major_ytick_spacing = ma,
                            !.minor_ytick_spacing = mi] :
        y \in YLabelValues, ma \in SpacingValues, mi \in SpacingValues}

\* the defaults with the output options given
OutputOptions ==
    {[DefaultOptions EXCEPT !.filename = f, !.img_fmt = StrV(m), !.show = BoolV(sh)] :
        f \in FilenameValues, m \in {<<"p", "d", "f">>, <<"p", "n", "g">>}, sh \in BOOLEAN}

\* a call gives one option, a, the value v and the others the plain values g;
\* o holds the options that are not per-series
SinglePlotParams(d, sc, a, v, g, o) ==
    LET f == [b \in StyleNames |-> IF b = a THEN v ELSE g[b]]
    IN  [xy_data_sets |-> d, scatterplot |-> sc,
         colors |-> f["colors"], markers |-> f["markers"],
         linestyles |-> f["linestyles"], legend_labels |-> f["legend_labels"],
         y_label |-> o.y_label,
         major_ytick_spacing |-> o.major_ytick_spacing,
         minor_ytick_spacing |-> o.minor_ytick_spacing,
         vlines |-> o.vlines, hlines |-> o.hlines,
         vline_kwargs_set |-> o.vline_kwargs_set,
         hline_kwargs_set |-> o.hline_kwargs_set,
         filename |-> o.filename, img_fmt |-> o.img_fmt, show |-> o.show]

NoParams == [xy_data_sets |-> ListV(<<>>)]

\* no attribute assigned, no default object changed
NoEntries == [x \in {} |-> NoneV]

\* the parameter object p as the caller gave it, g holding what was overwritten
AsGiven(p, g) == [a \in DOMAIN p |-> IF a \in DOMAIN g THEN g[a] ELSE p[a]]

\* self.a = ... for the attributes as of the object p: the first assignment to
\* an attribute keeps the value the caller gave
Assigned(g, p, as) == [a \in DOMAIN g \cup as |-> IF a \in DOMAIN g THEN g[a] ELSE p[a]]

NoLocals == [L |-> 0, R |-> 0]

\* a property of the axes that no call has set
Unset == [t |-> "unset", n |-> 0, s |-> <<>>, l |-> <<>>]

\* the axes of a new figure
NoAxes ==
    [left_ylabel |-> Unset, right_ylabel |-> Unset,
     left_major_locator |-> Unset, right_major_locator |-> Unset,
     left_minor_locator |-> Unset, right_minor_locator |-> Unset,
     xticks |-> Unset, yticks |-> Unset,
     xticklabels |-> Unset, yticklabels |-> Unset, ylim |-> Unset,
     lines |-> <<>>, legend |-> Unset]

----------------------------------------------------------------------------
(* single_plot *)

\* mpl.rcParams['text.usetex'] = True; fig = plt.figure(); the two axes
SinglePlotCall(D, SC, V, G, O) ==
    /\ pc = "idle"
    /\ ncalls < MaxCalls
    /\ \E d \in D, sc \in SC, a \in StyleNames :
          \E v \in V, g \in G, o \in O :
             params' = SinglePlotParams(d, sc, a, v, g, o)
    /\ given' = NoEntries
    /\ fn' = "single_plot"
    /\ usetex' = TRUE
    /\ openFigs' = openFigs + 1
    /\ calls' = calls \o <<"figure", "add_subplot", "twinx">>
    /\ pc' = "normalize"
    /\ ncalls' = ncalls + 1
    /\ UNCHANGED <<err, loc, idx, draws, axes, exports, defaults, objs, plot_handles>>

\* a call with every shape of the per-series options, the rest at its default
SinglePlotBegin ==
    SinglePlotCall(DataValues, ScatterValues, StyleValues, PlainChoices, {DefaultOptions})

\* the locals single_plot computes from params before its draw loops
SinglePlotLocals(p) ==
    LET part == PartitionSets(p.xy_data_sets)
        L == PyLen(part.left)
        R == PyLen(part.right)
        lab == ResolveLabels(p.legend_labels, L, R)
        col == ResolveStyle(p.colors, L, R)
        mar == ResolveStyle(p.markers, L, R)
        lin == ResolveStyle(p.linestyles, L, R)
        sca == ResolveScatter(p.scatterplot)
        yla == ResolveYLabel(p.y_label)
        maj == ResolveSpacing(p.major_ytick_spacing)
        min == ResolveSpacing(p.minor_ytick_spacing)
    IN  [err |-> FirstErr(<<part.err, lab.err, col.err, mar.err, lin.err,
                            yla.err, maj.err, min.err>>),
         L |-> L, R |-> R,
         left_xy_data_sets |-> part.left, right_xy_data_sets |-> part.right,
         no_legend |-> lab.none,
         left_legend_labels |-> lab.left, right_legend_labels |-> lab.right,
         left_colors |-> col.left, right_colors |-> col.right,
         left_markers |-> mar.left, right_markers |-> mar.right,
         left_linestyles |-> lin.left, right_linestyles |-> lin.right,
         left_scatterplot |-> sca[1], right_scatterplot |-> sca[2],
         left_y_label |-> yla.left, right_y_label |-> yla.right,
         left_major_ytick_spacing |-> maj.left, right_major_ytick_spacing |-> maj.right,
         left_minor_ytick_spacing |-> min.left, right_minor_ytick_spacing |-> min.right]

SinglePlotNormalize ==
    /\ pc = "normalize"
    /\ fn = "single_plot"
    /\ LET r == SinglePlotLocals(params)
       IN  IF r.err # ""
           THEN /\ pc' = "failed"
                /\ err' = r.err
                /\ UNCHANGED <<loc, idx, plot_handles>>
           ELSE /\ pc' = "draw_left"
                /\ loc' = r
                /\ plot_handles' = <<>>
                /\ idx' = 0
                /\ err' = ""
    /\ UNCHANGED <<fn, params, draws, calls, usetex, openFigs, axes, exports, ncalls,
                 given, defaults, objs>>

\* the keyword arguments of one errorbar call read the per-series lists
CanDraw(scatter, markers, colors, labels, linestyles, i) ==
    /\ HasItem(markers, i)
    /\ HasItem(colors, i)
    /\ HasItem(labels, i)
    /\ (~scatter => HasItem(linestyles, i))

\* ls='none', the linestyle of a scatter plot
LsNone == StrV(<<"n", "o", "n", "e">>)

\* ErrorBar with every per-series list read at index 0 instead of idx
ErrorBarFirstEntry(ax, data, scatter, markers, colors, labels, linestyles, i) ==
    [ax |-> ax,
     series |-> GetItem(data, i).n,
     marker |-> GetItem(markers, 0),
     c |-> GetItem(colors, 0),
     label |-> GetItem(labels, 0),
     ls |-> IF scatter THEN LsNone ELSE GetItem(linestyles, 0)]

\* ax.errorbar(x, y, ..., marker=, c=, label=, ls=)
ErrorBar(ax, data, scatter, markers, colors, labels, linestyles, i) ==
    [ax |-> ax,
     series |-> GetItem(data, i).n,
     marker |-> GetItem(markers, i),
     c |-> GetItem(colors, i),
     label |-> GetItem(labels, i),
     ls |-> IF scatter THEN LsNone ELSE GetItem(linestyles, i)]

\* the container an errorbar call returns: get_label() gives the label passed
HandleOf(d) == [ax |-> d.ax, series |-> d.series, label |-> d.label]

\* for idx in range(num_left_xy_data_sets): plot_handles.append(ax_1.errorbar(...))
SinglePlotDrawLeft ==
    /\ pc = "draw_left"
    /\ IF idx < loc.L
       THEN IF CanDraw(loc.left_scatterplot, loc.left_markers, loc.left_colors,
                       loc.left_legend_labels, loc.left_linestyles, idx)
            THEN LET d == ErrorBar("ax_1", loc.left_xy_data_sets, loc.left_scatterplot,
                                   loc.left_markers, loc.left_colors,
                                   loc.left_legend_labels, loc.left_linestyles, idx)
                 IN  /\ draws' = Append(draws, d)
                     /\ plot_handles' = Append(plot_handles, HandleOf(d))
                     /\ calls' = Append(calls, "errorbar")
                     /\ idx' = idx + 1
                     /\ UNCHANGED <<pc, err>>
            ELSE /\ pc' = "failed"
                 /\ err' = "IndexError"
                 /\ UNCHANGED <<draws, plot_handles, calls, idx>>
       ELSE /\ pc' = "draw_right"
            /\ idx' = 0
            /\ UNCHANGED <<draws, plot_handles, calls, err>>
    /\ UNCHANGED <<fn, params, loc, usetex, openFigs, axes, exports, ncalls,
                 given, defaults, objs>>

\* for idx in range(num_right_xy_data_sets): plot_handles.append(ax_2.errorbar(...))
SinglePlotDrawRight ==
    /\ pc = "draw_right"
    /\ IF idx < loc.R
       THEN IF CanDraw(loc.right_scatterplot, loc.right_markers, loc.right_colors,
                       loc.right_legend_labels, loc.right_linestyles, idx)
            THEN LET d == ErrorBar("ax_2", loc.right_xy_data_sets, loc.right_scatterplot,
                                   loc.right_markers, loc.right_colors,
                                   loc.right_legend_labels, loc.right_linestyles, idx)
                 IN  /\ draws' = Append(draws, d)
                     /\ plot_handles' = Append(plot_handles, HandleOf(d))
                     /\ calls' = Append(calls, "errorbar")
                     /\ idx' = idx + 1
                     /\ UNCHANGED <<pc, err>>
            ELSE /\ pc' = "failed"
                 /\ err' = "IndexError"
                 /\ UNCHANGED <<draws, plot_handles, calls, idx>>
       ELSE /\ pc' = "lines"
            /\ idx' = 0
            /\ UNCHANGED <<draws, plot_handles, calls, err>>
    /\ UNCHANGED <<fn, params, loc, usetex, openFigs, axes, exports, ncalls,
                 given, defaults, objs>>

\* [{}] * len(lines) when the kwargs set is None, the kwargs set otherwise
ResolveKwargsSet(kw, lines) ==
    IF kw = NoneV THEN Repeat(DictV(<<>>), PyLen(lines)) ELSE kw

\* ax.axvline(x=pos, **kwargs), ax.axhline(y=pos, **kwargs): the call kind,
\* the keyword arg that carries the position, the position, the other keywords
LineCall(kind, arg, pos, kwargs) == [kind |-> kind, arg |-> arg, pos |-> pos, kwargs |-> kwargs]

\* axvline takes its position as x and axhline as y; any other keyword is
\* taken for a property of the Line2D, which has no property x or y:
\* AttributeError
LineAccepted(c) == c.arg = (IF c.kind = "axvline" THEN "x" ELSE "y")

\* the calls of a line loop that return: those before the first one that raises
RECURSIVE LinesAdded(_)
LinesAdded(cs) ==
    IF cs = <<>> \/ ~LineAccepted(Head(cs)) THEN <<>>
    ELSE <<Head(cs)>> \o LinesAdded(Tail(cs))

\* params.vline_kwargs_set and params.hline_kwargs_set are replaced when None;
\* ax_1.axvline(x=vline, **vline_kwargs) for each pair of the first zip, then
\* ax_1.axhline(x=hline, **hline_kwargs) for each pair of the second zip
SinglePlotLines ==
    /\ pc = "lines"
    /\ fn = "single_plot"
    /\ LET vk == ResolveKwargsSet(params.vline_kwargs_set, params.vlines)
           hk == ResolveKwargsSet(params.hline_kwargs_set, params.hlines)
           vz == Zip(params.vlines, vk)
           hz == Zip(params.hlines, hk)
           cs == [i \in 1..Len(vz) |-> LineCall("axvline", "x", vz[i][1], vz[i][2])]
                 \o [i \in 1..Len(hz) |-> LineCall("axhline", "x", hz[i][1], hz[i][2])]
           added == LinesAdded(cs)
           issued == SubSeq(cs, 1, IF Len(added) < Len(cs) THEN Len(added) + 1 ELSE Len(cs))
       IN  /\ params' = [params EXCEPT !.vline_kwargs_set = vk, !.hline_kwargs_set = hk]
           /\ given' = Assigned(given, params,
                                {a \in {"vline_kwargs_set", "hline_kwargs_set"} :
                                    params[a] = NoneV})
           /\ axes' = [axes EXCEPT !.lines = added]
           /\ calls' = calls \o [i \in 1..Len(issued) |-> issued[i].kind]
           /\ pc' = IF added = cs THEN "decorate" ELSE "failed"
           /\ err' = IF added = cs THEN err ELSE "AttributeError"
    /\ UNCHANGED <<fn, loc, idx, draws, usetex, openFigs, exports, ncalls,
                 defaults, objs, plot_handles>>

\* MultipleLocator(base) compares base with 0: a TypeError unless base is a number
LocatorOk(base) == base.t = "float"

\* the y tick spacings in the order their locators are built, None ones skipped
YLocators(l) ==
    <<l.left_major_ytick_spacing, l.left_minor_ytick_spacing,
      l.right_major_ytick_spacing, l.right_minor_ytick_spacing>>

\* the position of the first spacing MultipleLocator rejects (5 when none is)
FirstBadLocator(sp) ==
    IF \E i \in 1..4 : sp[i] # NoneV /\ ~LocatorOk(sp[i])
    THEN CHOOSE i \in 1..4 : /\ sp[i] # NoneV /\ ~LocatorOk(sp[i])
                             /\ \A j \in 1..(i - 1) : sp[j] = NoneV \/ LocatorOk(sp[j])
    ELSE 5

\* LegendOf with the handles in reverse order
LegendOfReversed(handles) ==
    [handles |-> [i \in 1..Len(handles) |-> handles[Len(handles) + 1 - i]],
     labels |-> [i \in 1..Len(handles) |-> handles[Len(handles) + 1 - i].label]]

\* ax_1.legend(handles=plot_handles, labels=[h.get_label() for h in plot_handles])
LegendOf(handles) ==
    [handles |-> handles, labels |-> [i \in 1..Len(handles) |-> handles[i].label]]

\* the legend (built from plot_handles unless no_legend), the axis labels, the
\* limits, the tick locators, the tick parameters, the title, the aspect
SinglePlotDecorate ==
    /\ pc = "decorate"
    /\ fn = "single_plot"
    /\ LET sp == YLocators(loc)
           k == FirstBadLocator(sp)
           base(i) == IF i < k /\ sp[i] # NoneV THEN sp[i] ELSE Unset
           locators == [i \in 1..4 |->
                          IF base(i) = Unset THEN <<>>
                          ELSE IF i \in {1, 3} THEN <<"set_major_locator">>
                          ELSE <<"set_minor_locator">>]
       IN  /\ axes' = [axes EXCEPT !.left_ylabel = loc.left_y_label,
                                   !.right_ylabel = loc.right_y_label,
                                   !.left_major_locator = base(1),
                                   !.left_minor_locator = base(2),
                                   !.right_major_locator = base(3),
                                   !.right_minor_locator = base(4),
                                   !.legend = IF loc.no_legend THEN Unset
                                              ELSE LegendOf(plot_handles)]
           /\ calls' = calls \o (IF loc.no_legend THEN <<>> ELSE <<"legend">>)
                             \o <<"text", "set_xlabel", "set_ylabel", "set_ylabel",
                                  "set_xlim", "set_ylim">>
                             \o locators[1] \o locators[2] \o locators[3] \o locators[4]
                             \o (IF k = 5 THEN <<"tick_params", "set_title", "set_aspect">>
                                  ELSE <<>>)
           /\ pc' = IF k = 5 THEN "finish" ELSE "failed"
           /\ err' = IF k = 5 THEN err ELSE "TypeError"
    /\ UNCHANGED <<fn, params, loc, idx, draws, usetex, openFigs, exports, ncalls,
                 given, defaults, objs, plot_handles>>

\* fig.tight_layout(); if params.show: plt.show(); if filename is a str:
\* plt.savefig(filename, format=img_fmt); return None.  plt.show() returns at
\* once under a non-interactive backend; under an interactive one it returns
\* when every window was closed, which removes every figure from the registry.
\* plt.savefig saves plt.gcf(), a new empty figure when the registry is empty.
FinishCall ==
    \E closed \in BOOLEAN :
        LET shown == params.show.n = 1
            left == IF shown /\ closed THEN 0 ELSE openFigs
            saves == IsStr(params.filename)
        IN  /\ calls' = calls \o <<"tight_layout">>
                              \o (IF shown THEN <<"show">> ELSE <<>>)
                              \o (IF saves THEN <<"savefig">> ELSE <<>>)
            /\ exports' = IF saves
                          THEN Append(exports, [path |-> params.filename,
                                                format |-> params.img_fmt,
                                                blank |-> left = 0])
                          ELSE exports
            /\ openFigs' = IF saves /\ left = 0 THEN 1 ELSE left
            /\ pc' = "done"

SinglePlotFinish ==
    /\ pc = "finish"
    /\ fn = "single_plot"
    /\ FinishCall
    /\ UNCHANGED <<fn, err, params, loc, idx, draws, usetex, axes, ncalls,
                 given, defaults, objs, plot_handles>>

----------------------------------------------------------------------------
(* Normalisation and bin edges in single_hist *)

\* np.array(c), a scalar becoming an array of one element
ToNpArray(c) ==
    IF c.t = "ndarray" THEN c
    ELSE IF c.t = "list" THEN NdArray(c.l)
    ELSE NdArray(<<c>>)

\* NpResize padding with None instead of repeating a
NpResizePad(a, n) == NdArray([i \in 1..n |-> IF i <= Len(a.l) THEN a.l[i] ELSE NoneV])

\* np.resize(a, n): a repeated cyclically up to n elements
NpResize(a, n) == NdArray([i \in 1..n |-> a.l[((i - 1) % Len(a.l)) + 1]])

\* colors -> the per-data-set face colours
ResolveHistColors(v, N) ==
    IF v = NoneV THEN Repeat(NoneV, N)
    ELSE LET a == ToNpArray(v)
         IN  IF Len(a.l) = 1 THEN NpResize(a, N) ELSE a

\* alphas -> the per-data-set transparencies
ResolveAlphas(v, N) ==
    LET a == ToNpArray(v)
    IN  IF Len(a.l) = 1 THEN NpResize(a, N) ELSE a

\* numbers are fractions <<numerator, denominator>> with a positive denominator
FracLess(a, b) == a[1] * b[2] < b[1] * a[2]

SeqMin(xs) == CHOOSE m \in {xs[i] : i \in 1..Len(xs)} : \A i \in 1..Len(xs) : m <= xs[i]

SeqMax(xs) == CHOOSE m \in {xs[i] : i \in 1..Len(xs)} : \A i \in 1..Len(xs) : m >= xs[i]

\* LinSpace without its endpoint: num steps of (hi - lo) / num from lo
LinSpaceOpen(lo, hi, num) ==
    [i \in 1..num |-> <<lo * num + (i - 1) * (hi - lo), num>>]

\* np.linspace(lo, hi, num), num >= 2
LinSpace(lo, hi, num) ==
    [i \in 1..num |-> <<lo * (num - 1) + (i - 1) * (hi - lo), num - 1>>]

RECURSIVE Insert(_, _)
Insert(e, xs) ==
    IF xs = <<>> THEN <<e>>
    ELSE IF FracLess(Head(xs), e) THEN <<Head(xs)>> \o Insert(e, Tail(xs))
    ELSE <<e>> \o xs

\* np.sort
RECURSIVE NpSort(_)
NpSort(xs) == IF xs = <<>> THEN <<>> ELSE Insert(Head(xs), NpSort(Tail(xs)))

\* an array of bin edges given by the caller, as fractions
GivenEdges(bins) == [i \in 1..Len(bins.l) |-> <<bins.l[i], 1>>]

\* np.amin(x) raises on an empty data set
CanBin(x, bins) == bins.t = "int" => Len(x.l) >= 1

\* the bins of the filled call: linspace over the data range for an int, the
\* given edges otherwise, sorted in both cases
FillEdges(x, bins) ==
    IF bins.t = "int"
    THEN NpSort(LinSpace(SeqMin(x.l), SeqMax(x.l), bins.n + 1))
    ELSE NpSort(GivenEdges(bins))

\* the bins of the outline call: sorted only when computed from an int
OutlineEdges(x, bins) ==
    IF bins.t = "int"
    THEN NpSort(LinSpace(SeqMin(x.l), SeqMax(x.l), bins.n + 1))
    ELSE GivenEdges(bins)

FracMul(a, b) == <<a[1] * b[1], a[2] * b[2]>>

RECURSIVE FracPow(_, _)
FracPow(a, k) == IF k = 0 THEN <<1, 1>> ELSE FracMul(a, FracPow(a, k - 1))

\* np.logspace(log10(first), log10(last), num), num >= 2: edge i (from 0) is
\* 10 ** (log10(first) + i * (log10(last) - log10(first)) / (num - 1)), the
\* (num-1)-th root of first**(num-1-i) * last**i, kept as [of, root]
LogSpace(first, last, num) ==
    [i \in 1..num |->
        [of |-> FracMul(FracPow(first, num - i), FracPow(last, i - 1)), root |-> num - 1]]

\* what ax.hist gets as bins: the edges, or with x_log_scale the result of
\* np.logspace(log10(edges[0]), log10(edges[-1]), len(edges))
HistBins(edges, log) ==
    IF log
    THEN [space |-> "log", first |-> edges[1], last |-> edges[Len(edges)],
          num |-> Len(edges),
          edges |-> LogSpace(edges[1], edges[Len(edges)], Len(edges))]
    ELSE [space |-> "given", first |-> edges[1], last |-> edges[Len(edges)],
          num |-> Len(edges), edges |-> edges]

----------------------------------------------------------------------------
(* The inputs of a single_hist call *)

Alphas == {5, 8}    \* transparencies, in tenths

Samples == {<<3, 1>>, <<2, 2>>, <<>>}

HistDataValues ==
    UNION {{ListV([i \in 1..k |-> XData(f[i])]) : f \in [1..k -> Samples]} : k \in 0..MaxSets}

\* an integer bin count, or an array of bin edges
BinsValues ==
    {IntV(b) : b \in 1..MaxBins}
    \cup {ListV(<<1, 2, 4>>), ListV(<<1, 2, 3>>), ListV(<<4, 1, 2>>)}

FloatLists(n) == UNION {{ListV([i \in 1..k |-> FloatV(f[i])]) : f \in [1..k -> Alphas]} : k \in 0..n}

HistNames == {"colors", "alphas", "legend_labels"}

\* what the option a of single_hist ranges over
HistValues(a) ==
    CASE a = "colors" -> {NoneV} \cup {StrV(cs) : cs \in Strs} \cup StrLists(MaxListLen)
      [] a = "alphas" -> {FloatV(x) : x \in Alphas} \cup FloatLists(MaxListLen)
      [] a = "legend_labels" -> {NoneV} \cup StrLists(MaxListLen)

\* what the options beside the one under study range over
HistPlainValues(b) ==
    CASE b = "colors" -> {NoneV, StrV(<<"r">>)}
      [] b = "alphas" -> {FloatV(8)}
      [] b = "legend_labels" -> {NoneV}

\* the plain values of the options beside the one under study
HistPlainChoices ==
    {g \in [HistNames -> {NoneV, StrV(<<"r">>), FloatV(8)}] :
        \A b \in HistNames : g[b] \in HistPlainValues(b)}

\* the option under study, its value and the plain values of the others
HistChoices == UNION {{<<a, v, g>> : v \in HistValues(a), g \in HistPlainChoices} : a \in HistNames}

SingleHistParams(d, bins, cum, log, a, v, g, o) ==
    LET f == [b \in HistNames |-> IF b = a THEN v ELSE g[b]]
    IN  [x_data_sets |-> d, bins |-> bins, cumulative |-> cum, x_log_scale |-> log,
         colors |-> f["colors"], alphas |-> f["alphas"],
         legend_labels |-> f["legend_labels"],
         filename |-> o.filename, img_fmt |-> o.img_fmt, show |-> o.show]

----------------------------------------------------------------------------
(* single_hist *)

\* mpl.rcParams['text.usetex'] = True; fig = plt.figure(); ax
SingleHistCall(D, B, S, O) ==
    /\ pc = "idle"
    /\ ncalls < MaxCalls
    /\ \E d \in D, bins \in B, cum \in BOOLEAN, log \in BOOLEAN :
          \E c \in S, o \in O :
             params' = SingleHistParams(d, bins, cum, log, c[1], c[2], c[3], o)
    /\ given' = NoEntries
    /\ fn' = "single_hist"
    /\ usetex' = TRUE
    /\ openFigs' = openFigs + 1
    /\ calls' = calls \o <<"figure", "add_subplot">>
    /\ pc' = "normalize"
    /\ ncalls' = ncalls + 1
    /\ UNCHANGED <<err, loc, idx, draws, axes, exports, defaults, objs, plot_handles>>

\* a call with every shape of colors, alphas and legend_labels, the output
\* options at their defaults
SingleHistBegin == SingleHistCall(HistDataValues, BinsValues, HistChoices, {DefaultOptions})

\* the locals single_hist computes from params before its draw loops
SingleHistLocals(p) ==
    LET N == PyLen(p.x_data_sets)
    IN  [num_x_data_sets |-> N,
         hist_type |-> IF p.cumulative THEN "step" ELSE "bar",
         no_legend |-> p.legend_labels = NoneV,
         legend_labels |-> IF p.legend_labels = NoneV THEN Repeat(NoneV, N)
                           ELSE p.legend_labels,
         colors |-> ResolveHistColors(p.colors, N),
         alphas |-> ResolveAlphas(p.alphas, N)]

SingleHistNormalize ==
    /\ pc = "normalize"
    /\ fn = "single_hist"
    /\ loc' = SingleHistLocals(params)
    /\ idx' = 0
    /\ pc' = "fill"
    /\ UNCHANGED <<fn, err, params, draws, calls, usetex, openFigs, axes, exports, ncalls,
                 given, defaults, objs, plot_handles>>

\* the filled ax.hist call of data set i
FillCall(p, l, i) ==
    [kind |-> "fill",
     set |-> i + 1,
     bins |-> HistBins(FillEdges(GetItem(p.x_data_sets, i), p.bins), p.x_log_scale),
     alpha |-> GetItem(l.alphas, i),
     facecolor |-> GetItem(l.colors, i),
     label |-> GetItem(l.legend_labels, i),
     histtype |-> l.hist_type]

\* OutlineCall with the face colour of the filled call
OutlineCallFilled(p, l, i) ==
    [kind |-> "outline",
     set |-> i + 1,
     bins |-> HistBins(OutlineEdges(GetItem(p.x_data_sets, i), p.bins), p.x_log_scale),
     alpha |-> NoneV,
     facecolor |-> GetItem(l.colors, i),
     label |-> NoneV,
     histtype |-> "bar"]

\* the outline-only ax.hist call of data set i
OutlineCall(p, l, i) ==
    [kind |-> "outline",
     set |-> i + 1,
     bins |-> HistBins(OutlineEdges(GetItem(p.x_data_sets, i), p.bins), p.x_log_scale),
     alpha |-> NoneV,
     facecolor |-> StrV(<<"N", "o", "n", "e">>),
     label |-> NoneV,
     histtype |-> "bar"]

\* for idx in range(num_x_data_sets): ax.hist(x, bins=..., alpha=alphas[idx], ...)
SingleHistFill ==
    /\ pc = "fill"
    /\ IF idx < loc.num_x_data_sets
       THEN IF ~CanBin(GetItem(params.x_data_sets, idx), params.bins)
            THEN /\ pc' = "failed"
                 /\ err' = "ValueError"
                 /\ UNCHANGED <<draws, calls, idx>>
            ELSE IF /\ HasItem(loc.alphas, idx)
                    /\ HasItem(loc.colors, idx)
                    /\ HasItem(loc.legend_labels, idx)
            THEN /\ draws' = Append(draws, FillCall(params, loc, idx))
                 /\ calls' = Append(calls, "hist")
                 /\ idx' = idx + 1
                 /\ UNCHANGED <<pc, err>>
            ELSE /\ pc' = "failed"
                 /\ err' = "IndexError"
                 /\ UNCHANGED <<draws, calls, idx>>
       ELSE /\ pc' = IF loc.hist_type = "bar" THEN "outline" ELSE "decorate"
            /\ idx' = 0
            /\ UNCHANGED <<draws, calls, err>>
    /\ UNCHANGED <<fn, params, loc, usetex, openFigs, axes, exports, ncalls,
                 given, defaults, objs, plot_handles>>

\* ax.hist hands its bins to np.histogram, which raises ValueError when an
\* array of bin edges decreases somewhere
Monotonic(b) ==
    \A i \in 1..(Len(b.edges) - 1) :
        IF b.space = "log" THEN ~FracLess(b.edges[i + 1].of, b.edges[i].of)
        ELSE ~FracLess(b.edges[i + 1], b.edges[i])

\* if hist_type == "bar": the second loop, drawing the bar edges; params.bins
\* given as an array reaches ax.hist as it is, not sorted
SingleHistOutline ==
    /\ pc = "outline"
    /\ IF idx < loc.num_x_data_sets
       THEN LET d == OutlineCall(params, loc, idx)
            IN  /\ draws' = Append(draws, d)
                /\ calls' = Append(calls, "hist")
                /\ idx' = IF Monotonic(d.bins) THEN idx + 1 ELSE idx
                /\ pc' = IF Monotonic(d.bins) THEN pc ELSE "failed"
                /\ err' = IF Monotonic(d.bins) THEN err ELSE "ValueError"
       ELSE /\ pc' = "decorate"
            /\ idx' = 0
            /\ UNCHANGED <<draws, calls, err>>
    /\ UNCHANGED <<fn, params, loc, usetex, openFigs, axes, exports, ncalls,
                 given, defaults, objs, plot_handles>>

\* the legend (unless no_legend), title, labels, limits, ticks
SingleHistDecorate ==
    /\ pc = "decorate"
    /\ fn = "single_hist"
    /\ calls' = calls \o (IF loc.no_legend THEN <<>> ELSE <<"legend">>)
                      \o <<"set_title", "text", "set_xlabel", "set_ylabel", "set_xlim",
                           "set_ylim", "tick_params", "set_aspect">>
    /\ pc' = "finish"
    /\ UNCHANGED <<fn, err, params, loc, idx, draws, usetex, openFigs, axes, exports, ncalls,
                 given, defaults, objs, plot_handles>>

\* fig.tight_layout(); the show and the savefig of FinishCall; return None
SingleHistFinish ==
    /\ pc = "finish"
    /\ fn = "single_hist"
    /\ FinishCall
    /\ UNCHANGED <<fn, err, params, loc, idx, draws, usetex, axes, ncalls,
                 given, defaults, objs, plot_handles>>

----------------------------------------------------------------------------
(* SingleImshowParams and single_imshow *)

\* a 2D array z, of which the model keeps z.shape
Image(rows, cols) == [t |-> "ndarray2d", n |-> 0, s |-> <<>>, l |-> <<rows, cols>>]

\* range(n)
RangeV(n) == [t |-> "range", n |-> 0, s |-> <<>>, l |-> [i \in 1..n |-> IntV(i - 1)]]

ImageValues == {Image(r, c) : r \in 1..MaxDim, c \in 1..MaxDim}

\* xticks, yticks: omitted, or a list of tick positions
TickValues == {NoneV} \cup {ListV([i \in 1..k |-> IntV(i - 1)]) : k \in 0..MaxTicks}

\* xticklabels, yticklabels: omitted, or a list of labels
TickLabelValues == {NoneV} \cup {ListV([i \in 1..k |-> StrV(<<"r">>)]) : k \in 0..MaxTicks}

\* SingleImshowParams.__init__: the attributes of the new object
SingleImshowParams(z, xticks, yticks, xticklabels, yticklabels, o) ==
    [z |-> z,
     xticks |-> IF xticks = NoneV THEN RangeV(z.l[2]) ELSE xticks,
     yticks |-> IF yticks = NoneV THEN RangeV(z.l[1]) ELSE yticks,
     xticklabels |-> IF xticklabels = NoneV THEN Repeat(StrV(<<>>), z.l[2])
                     ELSE xticklabels,
     yticklabels |-> IF yticklabels = NoneV THEN Repeat(StrV(<<>>), z.l[1])
                     ELSE yticklabels,
     vlines |-> o.vlines, hlines |-> o.hlines,
     vline_kwargs |-> o.vline_kwargs, hline_kwargs |-> o.hline_kwargs,
     filename |-> o.filename, img_fmt |-> o.img_fmt, show |-> o.show]

\* params = SingleImshowParams(z, xticks=..., ...); loc keeps the arguments
SingleImshowNew(Z, T, LB, O) ==
    /\ pc = "idle"
    /\ ncalls < MaxCalls
    /\ \E z \in Z, xt \in T, yt \in T, xl \in LB, yl \in LB, o \in O :
          /\ params' = SingleImshowParams(z, xt, yt, xl, yl, o)
          /\ loc' = [xticks |-> xt, yticks |-> yt, xticklabels |-> xl, yticklabels |-> yl]
    /\ given' = NoEntries
    /\ fn' = "SingleImshowParams"
    /\ pc' = "constructed"
    /\ UNCHANGED <<err, idx, draws, calls, usetex, openFigs, axes, exports, ncalls,
                 defaults, objs, plot_handles>>

\* an object for every image shape and every choice of ticks and tick labels
SingleImshowConstruct ==
    SingleImshowNew(ImageValues, TickValues, TickLabelValues, {DefaultOptions})

\* SingleImshowBegin without the assignment to mpl.rcParams['text.usetex']
SingleImshowBeginKeepingUsetex ==
    /\ pc = "constructed"
    /\ fn' = "single_imshow"
    /\ openFigs' = openFigs + 1
    /\ calls' = calls \o <<"figure", "add_subplot", "append_axes">>
    /\ pc' = "imshow"
    /\ ncalls' = ncalls + 1
    /\ UNCHANGED <<err, params, loc, idx, draws, axes, exports, usetex,
                 given, defaults, objs, plot_handles>>

\* mpl.rcParams['text.usetex'] = True; fig = plt.figure(); ax; the colorbar axis
SingleImshowBegin ==
    /\ pc = "constructed"
    /\ fn' = "single_imshow"
    /\ usetex' = TRUE
    /\ openFigs' = openFigs + 1
    /\ calls' = calls \o <<"figure", "add_subplot", "append_axes">>
    /\ pc' = "imshow"
    /\ ncalls' = ncalls + 1
    /\ UNCHANGED <<err, params, loc, idx, draws, axes, exports, given, defaults, objs,
                 plot_handles>>

\* im = ax.imshow(params.z, ...); cb = fig.colorbar(im, cax=cax, ...)
SingleImshowDraw ==
    /\ pc = "imshow"
    /\ draws' = Append(draws, [kind |-> "imshow", z |-> params.z])
    /\ calls' = calls \o <<"imshow", "colorbar">>
    /\ pc' = "decorate"
    /\ UNCHANGED <<fn, err, params, loc, idx, usetex, openFigs, axes, exports, ncalls,
                 given, defaults, objs, plot_handles>>

\* the ticks, the tick labels, the y limits <<len(yticks) - 0.5, -0.5>> (kept
\* in halves), one ax.axvline(x=vline, **params.vline_kwargs) per vline and one
\* ax.axhline(y=hline, **params.hline_kwargs) per hline, the frame, the labels,
\* the title, the aspect.
\* set_xticklabels and set_yticklabels of a matplotlib that checks the number
\* of labels against the ticks set before raise ValueError when they differ.
SingleImshowDecorate ==
    /\ pc = "decorate"
    /\ fn = "single_imshow"
    /\ \E checks \in BOOLEAN :
          LET xbad == checks /\ PyLen(params.xticklabels) # PyLen(params.xticks)
              ybad == checks /\ PyLen(params.yticklabels) # PyLen(params.yticks)
          IN  /\ axes' = [axes EXCEPT
                            !.xticks = params.xticks,
                            !.yticks = params.yticks,
                            !.xticklabels = IF xbad THEN Unset ELSE params.xticklabels,
                            !.yticklabels = IF xbad \/ ybad THEN Unset
                                            ELSE params.yticklabels,
                            !.ylim = IF xbad \/ ybad THEN Unset
                                     ELSE ListV(<<IntV(2 * PyLen(params.yticks) - 1),
                                                  IntV(-1)>>),
                            !.lines = IF xbad \/ ybad THEN <<>>
                                      ELSE [i \in 1..PyLen(params.vlines) |->
                                              LineCall("axvline", "x", params.vlines.l[i],
                                                       params.vline_kwargs)]
                                           \o [i \in 1..PyLen(params.hlines) |->
                                                 LineCall("axhline", "y", params.hlines.l[i],
                                                          params.hline_kwargs)]]
              /\ calls' = calls \o <<"set_xticks", "set_yticks">>
                                \o (IF xbad THEN <<>>
                                     ELSE IF ybad THEN <<"set_xticklabels">>
                                     ELSE <<"set_xticklabels", "set_yticklabels",
                                            "set_ticklabels", "tick_params", "set_ylim">>
                                          \o [i \in 1..PyLen(params.vlines) |-> "axvline"]
                                          \o [i \in 1..PyLen(params.hlines) |-> "axhline"]
                                          \o <<"set_xlabel", "set_ylabel", "set_title",
                                                "text", "set_aspect">>)
              /\ pc' = IF xbad \/ ybad THEN "failed" ELSE "finish"
              /\ err' = IF xbad \/ ybad THEN "ValueError" ELSE err
    /\ UNCHANGED <<fn, params, loc, idx, draws, usetex, openFigs, exports, ncalls,
                 given, defaults, objs, plot_handles>>

\* fig.tight_layout(); the show and the savefig of FinishCall; return None
SingleImshowFinish ==
    /\ pc = "finish"
    /\ fn = "single_imshow"
    /\ FinishCall
    /\ UNCHANGED <<fn, err, params, loc, idx, draws, usetex, axes, ncalls,
                 given, defaults, objs, plot_handles>>

----------------------------------------------------------------------------
(* The default arguments of the three __init__ functions *)

\* the list- and dict-valued defaults, evaluated once, when the class is
\* defined (floats in hundredths)
LiteralDefaults ==
    [SinglePlotParams |->
        [vlines |-> ListV(<<>>), hlines |-> ListV(<<>>),
         x_lims |-> ListV(<<NoneV, NoneV>>), y_lims |-> ListV(<<NoneV, NoneV>>),
         fig_label_coords |-> ListV(<<FloatV(5), FloatV(93)>>)],
     SingleImshowParams |->
        [append_axes_kwargs |-> DictV(<<<<"position", StrV(<<"r", "i", "g", "h", "t">>)>>,
                                        <<"size", StrV(<<"5", "%">>)>>,
                                        <<"pad", FloatV(5)>>>>),
         colorbar_kwargs |-> DictV(<<>>),
         cbticklabels |-> ListV(<<>>),
         vlines |-> ListV(<<>>), hlines |-> ListV(<<>>),
         vline_kwargs |-> DictV(<<>>), hline_kwargs |-> DictV(<<>>),
         fig_label_coords |-> ListV(<<FloatV(7), FloatV(91)>>)],
     SingleHistParams |->
        [x_lims |-> ListV(<<NoneV, NoneV>>), y_lims |-> ListV(<<NoneV, NoneV>>),
         fig_label_coords |-> ListV(<<FloatV(5), FloatV(93)>>)]]

----------------------------------------------------------------------------
(* One call of single_plot *)

Init ==
    /\ fn = ""
    /\ pc = "idle"
    /\ err = ""
    /\ params = NoParams
    /\ loc = NoLocals
    /\ idx = 0
    /\ draws = <<>>
    /\ calls = <<>>
    /\ usetex = FALSE
    /\ openFigs = 0
    /\ axes = NoAxes
    /\ exports = <<>>
    /\ ncalls = 0
    /\ given = NoEntries
    /\ defaults = NoEntries
    /\ objs = <<>>
    /\ plot_handles = <<>>

Next ==
    \/ SinglePlotBegin
    \/ SinglePlotNormalize
    \/ SinglePlotDrawLeft
    \/ SinglePlotDrawRight
    \/ SinglePlotLines
    \/ SinglePlotDecorate
    \/ SinglePlotFinish

Spec == Init /\ [][Next]_vars

----------------------------------------------------------------------------
(* One call of single_hist *)

NextHist ==
    \/ SingleHistBegin
    \/ SingleHistNormalize
    \/ SingleHistFill
    \/ SingleHistOutline
    \/ SingleHistDecorate
    \/ SingleHistFinish

SpecHist == Init /\ [][NextHist]_vars

----------------------------------------------------------------------------
(* One call of single_plot with the y-axis options given *)

\* one series, or one series per y-axis
FewSeries ==
    {ListV(<<XYData(1)>>), ListV(<<ListV(<<XYData(1)>>), ListV(<<XYData(2)>>)>>)}

\* every per-series option omitted
Omitted == [b \in StyleNames |-> NoneV]

\* a call with every shape of y_label and of the two y tick spacings
SinglePlotAxesBegin ==
    SinglePlotCall(FewSeries, {BoolV(FALSE)}, {NoneV}, {Omitted}, AxisOptions)

NextAxes ==
    \/ SinglePlotAxesBegin
    \/ SinglePlotNormalize
    \/ SinglePlotDrawLeft
    \/ SinglePlotDrawRight
    \/ SinglePlotLines
    \/ SinglePlotDecorate
    \/ SinglePlotFinish

SpecAxes == Init /\ [][NextAxes]_vars

----------------------------------------------------------------------------
(* One SingleImshowParams object and one call of single_imshow on it *)

NextImshow ==
    \/ SingleImshowConstruct
    \/ SingleImshowBegin
    \/ SingleImshowDraw
    \/ SingleImshowDecorate
    \/ SingleImshowFinish

SpecImshow == Init /\ [][NextImshow]_vars

----------------------------------------------------------------------------
(* A run of plotting calls with the output options given *)

\* no series (the call fails), one series, one series per y-axis
FewSeriesOrNone == FewSeries \cup {ListV(<<>>)}

\* a per-series option omitted, or a list of one string, which leaves a right
\* series without a value
FewStyles == {NoneV, ListV(<<StrV(<<"r">>)>>)}

\* a data set of two values, or of none (the call fails on an integer bin count)
FewHistData == {ListV(<<XData(<<3, 1>>)>>), ListV(<<XData(<<>>)>>)}

\* colors, alphas and legend_labels at their defaults
HistDefaults ==
    {<<"colors", NoneV, [b \in HistNames |-> IF b = "alphas" THEN FloatV(8) ELSE NoneV]>>}

\* the function returns, or its exception reaches the caller: the frame of the
\* call is gone, the state of pyplot and of matplotlib stays
Return ==
    /\ pc \in {"done", "failed"}
    /\ pc' = "idle"
    /\ fn' = ""
    /\ err' = ""
    /\ params' = NoParams
    /\ loc' = NoLocals
    /\ idx' = 0
    /\ draws' = <<>>
    /\ calls' = <<>>
    /\ axes' = NoAxes
    /\ exports' = <<>>
    /\ given' = NoEntries
    /\ plot_handles' = <<>>
    /\ UNCHANGED <<usetex, openFigs, ncalls, defaults, objs>>

SinglePlotOutputBegin ==
    SinglePlotCall(FewSeriesOrNone, {BoolV(FALSE)}, FewStyles, {Omitted}, OutputOptions)

SingleHistOutputBegin ==
    SingleHistCall(FewHistData, {IntV(1)}, HistDefaults, OutputOptions)

SingleImshowOutputConstruct ==
    SingleImshowNew({Image(1, 1)}, {NoneV, ListV(<<>>)}, {NoneV}, OutputOptions)

NextCalls ==
    \/ SinglePlotOutputBegin
    \/ SinglePlotNormalize
    \/ SinglePlotDrawLeft
    \/ SinglePlotDrawRight
    \/ SinglePlotLines
    \/ SinglePlotDecorate
    \/ SinglePlotFinish
    \/ SingleHistOutputBegin
    \/ SingleHistNormalize
    \/ SingleHistFill
    \/ SingleHistOutline
    \/ SingleHistDecorate
    \/ SingleHistFinish
    \/ SingleImshowOutputConstruct
    \/ SingleImshowBegin
    \/ SingleImshowDraw
    \/ SingleImshowDecorate
    \/ SingleImshowFinish
    \/ Return

SpecCalls == Init /\ [][NextCalls]_vars

----------------------------------------------------------------------------
(* Calls with vertical and horizontal lines; the caller may keep the *)
(* parameter object of a single_plot call and call again with it      *)

\* the defaults with the lines of single_plot and their keyword arguments given
LineOptions ==
    {[DefaultOptions EXCEPT !.vlines = v, !.hlines = h,
                            !.vline_kwargs_set = vk, !.hline_kwargs_set = hk] :
        v \in LineValues, h \in LineValues,
        vk \in KwargsSetValues, hk \in KwargsSetValues}

\* the defaults with the lines of single_imshow and their keyword arguments given
ImshowLineOptions ==
    {[DefaultOptions EXCEPT !.vlines = v, !.hlines = h,
                            !.vline_kwargs = vk, !.hline_kwargs = hk] :
        v \in LineValues, h \in LineValues,
        vk \in {DictV(<<>>), KwargsOf(1)}, hk \in {DictV(<<>>), KwargsOf(2)}}

SinglePlotLinesBegin ==
    SinglePlotCall({ListV(<<XYData(1)>>)}, {BoolV(FALSE)}, {NoneV}, {Omitted}, LineOptions)

SingleImshowLinesConstruct ==
    SingleImshowNew({Image(1, 1)}, {NoneV}, {NoneV}, ImshowLineOptions)

\* single_plot has returned or raised and the caller keeps its parameter
\* object: the frame of the call is gone, the object stays as the call left it
ReturnToCaller ==
    /\ pc \in {"done", "failed"}
    /\ fn = "single_plot"
    /\ pc' = "returned"
    /\ fn' = ""
    /\ err' = ""
    /\ loc' = NoLocals
    /\ idx' = 0
    /\ draws' = <<>>
    /\ calls' = <<>>
    /\ axes' = NoAxes
    /\ exports' = <<>>
    /\ plot_handles' = <<>>
    /\ UNCHANGED <<params, given, usetex, openFigs, ncalls, defaults, objs>>

\* params.vlines = v, or params.hlines = v, between two calls
CallerAssign ==
    /\ pc = "returned"
    /\ \E a \in {"vlines", "hlines"}, v \in LineValues :
          /\ params[a] # v
          /\ params' = [params EXCEPT ![a] = v]
          /\ given' = [b \in DOMAIN given \ {a} |-> given[b]]
    /\ UNCHANGED <<fn, pc, err, loc, idx, draws, calls, usetex, openFigs, axes, exports,
                 ncalls, defaults, objs, plot_handles>>

\* single_plot(params) with the object the caller kept
SinglePlotAgain ==
    /\ pc = "returned"
    /\ ncalls < MaxCalls
    /\ fn' = "single_plot"
    /\ usetex' = TRUE
    /\ openFigs' = openFigs + 1
    /\ calls' = calls \o <<"figure", "add_subplot", "twinx">>
    /\ pc' = "normalize"
    /\ ncalls' = ncalls + 1
    /\ UNCHANGED <<err, params, loc, idx, draws, axes, exports, given, defaults, objs,
                 plot_handles>>

NextLines ==
    \/ SinglePlotLinesBegin
    \/ SinglePlotNormalize
    \/ SinglePlotDrawLeft
    \/ SinglePlotDrawRight
    \/ SinglePlotLines
    \/ SinglePlotDecorate
    \/ SinglePlotFinish
    \/ ReturnToCaller
    \/ CallerAssign
    \/ SinglePlotAgain
    \/ SingleImshowLinesConstruct
    \/ SingleImshowBegin
    \/ SingleImshowDraw
    \/ SingleImshowDecorate
    \/ SingleImshowFinish
    \/ Return

SpecLines == Init /\ [][NextLines]_vars

----------------------------------------------------------------------------
(* Parameter objects constructed with default arguments, and changed in place *)

Classes == {"SinglePlotParams", "SingleImshowParams", "SingleHistParams"}

\* the options of class c whose default is a list or a dict
MutableOptions(c) == DOMAIN LiteralDefaults[c]

\* the default objects: one per class and option
DefaultCells == UNION {{<<c, o>> : o \in MutableOptions(c)} : c \in Classes}

\* the default object of option o of class c: its literal unless changed in place
DefaultValue(ds, c, o) == IF <<c, o>> \in DOMAIN ds THEN ds[<<c, o>>] ELSE LiteralDefaults[c][o]

\* self.o = o for every option o: the attribute refers to the argument the
\* caller passed (an object of the caller's, equal to the literal) for the
\* options in own, and to the default object of __init__ for the others
NewObject(c, own) ==
    [cls |-> c,
     attrs |-> [o \in MutableOptions(c) |->
                  IF o \in own THEN [default |-> FALSE, val |-> LiteralDefaults[c][o]]
                  ELSE [default |-> TRUE, val |-> NoneV]]]

\* the value of attribute o of object i in the heap of objects os and default
\* objects ds
AttrValue(os, ds, i, o) ==
    IF os[i].attrs[o].default THEN DefaultValue(ds, os[i].cls, o) ELSE os[i].attrs[o].val

\* v.append(1.0) on a list, v["k"] = 1 on a dict
MutatedInPlace(v) ==
    IF v.t = "dict" THEN DictV(Append(v.l, <<"k", IntV(1)>>))
    ELSE ListV(Append(v.l, FloatV(1)))

\* the number of list and dict objects that were changed in place
NumMutated ==
    Cardinality({x \in DefaultCells :
                    DefaultValue(defaults, x[1], x[2]) # LiteralDefaults[x[1]][x[2]]})
    + Cardinality(UNION {{<<i, o>> : o \in {a \in MutableOptions(objs[i].cls) :
                                              /\ ~objs[i].attrs[a].default
                                              /\ objs[i].attrs[a].val
                                                    # LiteralDefaults[objs[i].cls][a]}} :
                         i \in 1..Len(objs)})

\* p = SinglePlotParams(...), SingleImshowParams(...) or SingleHistParams(...)
\* with the list- and dict-valued options omitted, or fig_label_coords given
Construct ==
    /\ Len(objs) < MaxObjs
    /\ \E c \in Classes, own \in SUBSET {"fig_label_coords"} :
          objs' = Append(objs, NewObject(c, own))
    /\ UNCHANGED <<fn, pc, err, params, loc, idx, draws, calls, usetex, openFigs, axes,
                 exports, ncalls, given, defaults, plot_handles>>

\* the caller changes the value of an option of one of its objects in place
MutateInPlace ==
    /\ NumMutated < MaxMutations
    /\ \E i \in 1..Len(objs) :
          \E o \in MutableOptions(objs[i].cls) :
             /\ AttrValue(objs, defaults, i, o) = LiteralDefaults[objs[i].cls][o]
             /\ IF objs[i].attrs[o].default
                THEN /\ defaults' =
                          [x \in DOMAIN defaults \cup {<<objs[i].cls, o>>} |->
                              IF x = <<objs[i].cls, o>>
                              THEN MutatedInPlace(DefaultValue(defaults, objs[i].cls, o))
                              ELSE defaults[x]]
                     /\ UNCHANGED objs
                ELSE /\ objs' = [objs EXCEPT ![i].attrs[o].val = MutatedInPlace(@)]
                     /\ UNCHANGED defaults
    /\ UNCHANGED <<fn, pc, err, params, loc, idx, draws, calls, usetex, openFigs, axes,
                 exports, ncalls, given, plot_handles>>

NextDefaults ==
    \/ Construct
    \/ MutateInPlace

SpecDefaults == Init /\ [][NextDefaults]_vars

----------------------------------------------------------------------------
(* What the claims speak of *)

\* the call has passed normalisation: its locals exist
Normalized == "left_colors" \in DOMAIN loc

\* the series collection is flat / is the pair [left series, right series]
DataFlat ==
    /\ Len(params.xy_data_sets.l) >= 1
    /\ params.xy_data_sets.l[1].t = "XYData"

DataNested ==
    /\ Len(params.xy_data_sets.l) = 2
    /\ params.xy_data_sets.l[1].t = "list"
    /\ params.xy_data_sets.l[2].t = "list"

\* the series the caller put in each group, read off the argument's shape
GivenLeft == IF DataNested THEN params.xy_data_sets.l[1].l ELSE params.xy_data_sets.l

GivenRight == IF DataNested THEN params.xy_data_sets.l[2].l ELSE <<>>

\* an option value that is a flat list of strings / a pair of lists of strings
IsFlatList(v) == v.t = "list" /\ Len(v.l) >= 1 /\ \A i \in 1..Len(v.l) : v.l[i].t = "str"

IsPair(v) == v.t = "list" /\ Len(v.l) = 2 /\ v.l[1].t = "list" /\ v.l[2].t = "list"

\* the value a draw call received for an option
Passed(d, a) ==
    CASE a = "colors" -> d.c
      [] a = "markers" -> d.marker
      [] a = "linestyles" -> d.ls
      [] a = "legend_labels" -> d.label

\* the draw call was issued for a group drawn as a scatter plot
OfScatterGroup(d) == IF d.ax = "ax_1" THEN loc.left_scatterplot ELSE loc.right_scatterplot

\* the draw call got v for option a; a scatter group's linestyle is always 'none'
Received(d, a, v) ==
    IF a = "linestyles" /\ OfScatterGroup(d) THEN d.ls = LsNone ELSE Passed(d, a) = v

\* the i-th draw call is for a left series (the i-th) or a right one (the (i-L)-th)
IsLeftDraw(i) == i <= Len(GivenLeft)

\* C1 as stated: a single string s given for colors, markers or linestyles is the
\* value every draw call receives for that attribute, left and right group alike,
\* and a completed call has drawn all L+R series.
C1_ScalarPassedToEveryDraw ==
    fn = "single_plot" =>
        \A a \in {"colors", "markers", "linestyles"} :
            IsStr(params[a]) =>
                /\ \A i \in 1..Len(draws) : Passed(draws[i], a) = params[a]
                /\ (pc = "done" => Len(draws) = Len(GivenLeft) + Len(GivenRight))

\* C1 amended: a single string s given for colors or markers is the value every
\* draw call receives for it; a single string given for linestyles is received by
\* the draw calls of the groups not drawn as scatter plots, while the draw calls
\* of a scatter group receive ls='none'; a completed call has drawn all L+R series.
C1_ScalarBroadcast ==
    fn = "single_plot" =>
        \A a \in {"colors", "markers", "linestyles"} :
            IsStr(params[a]) =>
                /\ \A i \in 1..Len(draws) : Received(draws[i], a, params[a])
                /\ (pc = "done" => Len(draws) = Len(GivenLeft) + Len(GivenRight))

\* C1 witness: a completed dual-axis call with a string linestyle and a string
\* colour, two left series drawn as lines and a right series
C1_Witness ==
    /\ pc = "done"
    /\ fn = "single_plot"
    /\ IsStr(params.linestyles)
    /\ IsStr(params.colors)
    /\ Len(GivenLeft) = 2
    /\ Len(GivenRight) = 1
    /\ Len(draws) = 3
    /\ ~loc.left_scatterplot

\* C2 as stated: with a flat collection of N series, a flat list of N strings
\* given for colors, markers, linestyles or legend_labels hands entry i to the
\* draw call of series i, for every i.
C2_FlatListEntryPassed ==
    (fn = "single_plot" /\ DataFlat) =>
        \A a \in StyleNames :
            (IsFlatList(params[a]) /\ Len(params[a].l) = Len(GivenLeft)) =>
                /\ pc # "failed"
                /\ \A i \in 1..Len(draws) : Passed(draws[i], a) = params[a].l[i]
                /\ (pc = "done" => Len(draws) = Len(GivenLeft))

\* C2 amended: as stated for colors, markers and legend_labels; for linestyles
\* entry i reaches the draw call of series i when the plot is not a scatter plot,
\* and a scatter plot's draw calls receive ls='none'.
C2_FlatListIdentity ==
    (fn = "single_plot" /\ DataFlat) =>
        \A a \in StyleNames :
            (IsFlatList(params[a]) /\ Len(params[a].l) = Len(GivenLeft)) =>
                /\ pc # "failed"
                /\ \A i \in 1..Len(draws) : Received(draws[i], a, params[a].l[i])
                /\ (pc = "done" => Len(draws) = Len(GivenLeft))

\* C2 witness: a completed call on a flat collection of two series with a list
\* of two different legend labels
C2_Witness ==
    /\ pc = "done"
    /\ fn = "single_plot"
    /\ DataFlat
    /\ Len(GivenLeft) = 2
    /\ IsFlatList(params.legend_labels)
    /\ Len(params.legend_labels.l) = 2
    /\ params.legend_labels.l[1] # params.legend_labels.l[2]
    /\ Len(draws) = 2

\* the list-shaped value v covers L left and R right series: a flat list has
\* L+R entries, a pair has L entries in its first and R in its second list
FitsGroups(v, L, R) ==
    IF IsPair(v) THEN Len(v.l[1].l) = L /\ Len(v.l[2].l) = R
    ELSE Len(v.l) = L + R

\* the entry a pair of lists holds for the i-th draw call
PairEntry(v, i) ==
    IF IsLeftDraw(i) THEN v.l[1].l[i] ELSE v.l[2].l[i - Len(GivenLeft)]

\* C3: in a dual-axis call with L left and R >= 1 right series, a flat list of
\* L+R entries hands its first L entries, in order, to the left series and the
\* remaining R entries, in order, to the right series (the call completes).
C3_FlatListAcrossGroups ==
    (fn = "single_plot" /\ DataNested /\ Len(GivenRight) >= 1) =>
        \A a \in StyleNames :
            (IsFlatList(params[a]) /\ Len(params[a].l) = Len(GivenLeft) + Len(GivenRight)) =>
                /\ pc # "failed"
                /\ \A i \in 1..Len(draws) : Received(draws[i], a, params[a].l[i])

\* C4 as stated: in a dual-axis call a pair [left_list, right_list] of lengths L
\* and R, given for colors, markers, linestyles or legend_labels, hands
\* left_list[i] to left series i and right_list[j] to right series j.
C4_PairEntryPassed ==
    (fn = "single_plot" /\ DataNested) =>
        \A a \in StyleNames :
            (IsPair(params[a]) /\ FitsGroups(params[a], Len(GivenLeft), Len(GivenRight))) =>
                /\ pc # "failed"
                /\ \A i \in 1..Len(draws) : Passed(draws[i], a) = PairEntry(params[a], i)
                /\ (pc = "done" => Len(draws) = Len(GivenLeft) + Len(GivenRight))

\* C4 amended: as stated for colors, markers and legend_labels; for linestyles
\* left_list[i] and right_list[j] reach the draw calls of the groups not drawn as
\* scatter plots, and the draw calls of a scatter group receive ls='none'.
C4_PairRouting ==
    (fn = "single_plot" /\ DataNested) =>
        \A a \in StyleNames :
            (IsPair(params[a]) /\ FitsGroups(params[a], Len(GivenLeft), Len(GivenRight))) =>
                /\ pc # "failed"
                /\ \A i \in 1..Len(draws) : Received(draws[i], a, PairEntry(params[a], i))
                /\ (pc = "done" => Len(draws) = Len(GivenLeft) + Len(GivenRight))

\* C4 witness: a completed call with two left series and one right series whose
\* colours are given as a pair of a two-entry and a one-entry list
C4_Witness ==
    /\ pc = "done"
    /\ fn = "single_plot"
    /\ DataNested
    /\ IsPair(params.colors)
    /\ Len(params.colors.l[1].l) = 2
    /\ Len(params.colors.l[2].l) = 1
    /\ params.colors.l[1].l[1] # params.colors.l[1].l[2]
    /\ Len(draws) = 3

\* C5: a call whose list-shaped option (a flat list, or a list of a pair) has a
\* length different from the number of series it must cover does not complete.
C5_LengthMismatchFails ==
    (fn = "single_plot" /\ pc = "done") =>
        \A a \in StyleNames :
            params[a].t = "list" => FitsGroups(params[a], Len(GivenLeft), Len(GivenRight))

\* C6: a call that fails on a list-shaped option whose length does not match its
\* group has issued no draw call.
C6_NoDrawBeforeMismatchFailure ==
    (/\ fn = "single_plot"
     /\ pc = "failed"
     /\ err = "IndexError"
     /\ \E a \in StyleNames :
           /\ params[a].t = "list"
           /\ ~FitsGroups(params[a], Len(GivenLeft), Len(GivenRight)))
    => draws = <<>>

\* the series the call has drawn, each with the axis it was drawn on
DrawnOn == [i \in 1..Len(draws) |-> <<draws[i].ax, draws[i].series>>]

\* the series the caller supplied, each with the axis of its group, in order
SuppliedOn ==
    [i \in 1..Len(GivenLeft) |-> <<"ax_1", GivenLeft[i].n>>]
    \o [j \in 1..Len(GivenRight) |-> <<"ax_2", GivenRight[j].n>>]

\* C7: the groups follow the shape of xy_data_sets alone: a flat sequence of N
\* series is the left group (R = 0), a pair of sequences is the left and the
\* right group; the series are drawn in that order, each on its group's axis,
\* none twice, and a completed call has drawn every one of them.
C7_PartitionByShape ==
    (fn = "single_plot" /\ (DataFlat \/ DataNested)) =>
        /\ Normalized =>
              /\ loc.left_xy_data_sets.l = GivenLeft
              /\ loc.right_xy_data_sets.l = GivenRight
              /\ loc.L = Len(GivenLeft)
              /\ loc.R = Len(GivenRight)
              /\ (DataFlat => loc.R = 0)
        /\ Len(draws) <= Len(SuppliedOn)
        /\ DrawnOn = SubSeq(SuppliedOn, 1, Len(draws))
        /\ (pc = "done" => DrawnOn = SuppliedOn)

\* C7 witness: a completed call on a pair of a two-series and a one-series
\* group, the first two drawn on the left axis and the third on the right one
C7_Witness ==
    /\ pc = "done"
    /\ fn = "single_plot"
    /\ DataNested
    /\ DrawnOn = <<<<"ax_1", 1>>, <<"ax_1", 2>>, <<"ax_2", 3>>>>

\* the option value has one of the four accepted shapes for L and R series
Accepted(v, L, R) ==
    \/ v = NoneV
    \/ IsStr(v)
    \/ IsFlatList(v) /\ FitsGroups(v, L, R)
    \/ IsPair(v) /\ FitsGroups(v, L, R)

\* C8: when single_plot starts issuing draw calls, each of the L left and R
\* right series has one resolved colour, marker, linestyle and legend label,
\* whichever accepted shape each option was given in.
C8_OneValuePerSeries ==
    (/\ fn = "single_plot"
     /\ pc = "draw_left"
     /\ idx = 0
     /\ \A a \in StyleNames : Accepted(params[a], Len(GivenLeft), Len(GivenRight)))
    => /\ PyLen(loc.left_colors) = loc.L /\ PyLen(loc.right_colors) = loc.R
       /\ PyLen(loc.left_markers) = loc.L /\ PyLen(loc.right_markers) = loc.R
       /\ PyLen(loc.left_linestyles) = loc.L /\ PyLen(loc.right_linestyles) = loc.R
       /\ PyLen(loc.left_legend_labels) = loc.L /\ PyLen(loc.right_legend_labels) = loc.R

\* C9: a legend label given as a single string is the label every one of the
\* L+R series is drawn with.
C9_ScalarLabelBroadcast ==
    (fn = "single_plot" /\ (DataFlat \/ DataNested) /\ IsStr(params.legend_labels)) =>
        /\ pc # "failed"
        /\ \A i \in 1..Len(draws) : draws[i].label = params.legend_labels

\* the filled ax.hist calls issued so far
FillDraws == SelectSeq(draws, LAMBDA d : d.kind = "fill")

\* C10: in single_hist with N data sets a single colour string, or a single
\* float alpha, is what the filled call of every data set receives, and a list
\* of N colours, or of N alphas, hands entry i to the filled call of data set i;
\* a completed call has issued the filled call of every data set.
C10_HistColorsAndAlphas ==
    fn = "single_hist" =>
        LET N == Len(params.x_data_sets.l)
        IN  /\ \A i \in 1..Len(FillDraws) :
                  /\ FillDraws[i].set = i
                  /\ IsStr(params.colors) => FillDraws[i].facecolor = params.colors
                  /\ params.alphas.t = "float" => FillDraws[i].alpha = params.alphas
                  /\ (params.colors.t = "list" /\ Len(params.colors.l) = N) =>
                        FillDraws[i].facecolor = params.colors.l[i]
                  /\ (params.alphas.t = "list" /\ Len(params.alphas.l) = N) =>
                        FillDraws[i].alpha = params.alphas.l[i]
            /\ pc = "done" => Len(FillDraws) = N

\* C10 witness: a completed histogram of two data sets with a single colour
\* string and a list of two different alphas
C10_Witness ==
    /\ pc = "done"
    /\ fn = "single_hist"
    /\ Len(params.x_data_sets.l) = 2
    /\ IsStr(params.colors)
    /\ params.alphas.t = "list"
    /\ Len(params.alphas.l) = 2
    /\ params.alphas.l[1] # params.alphas.l[2]
    /\ Len(FillDraws) = 2

\* the decoration calls of the running call have been made
Decorated == pc \in {"finish", "done"}

\* the text an axis label shows: set_ylabel(None) leaves the label empty
LabelText(v) == IF v = NoneV THEN StrV(<<>>) ELSE v

\* C11: a y_label given as a single string is the label of the left and of the
\* right y-axis; given as a two-element sequence, y_label[0] is the label of the
\* left and y_label[1] the label of the right y-axis.
C11_YLabelOnBothAxes ==
    (fn = "single_plot" /\ Decorated) =>
        /\ IsStr(params.y_label) =>
              /\ LabelText(axes.left_ylabel) = params.y_label
              /\ LabelText(axes.right_ylabel) = params.y_label
        /\ (params.y_label.t = "list" /\ Len(params.y_label.l) = 2) =>
              /\ LabelText(axes.left_ylabel) = params.y_label.l[1]
              /\ LabelText(axes.right_ylabel) = params.y_label.l[2]

\* a tick spacing given as a two-element sequence of floats
IsFloatPair(v) ==
    /\ v.t = "list"
    /\ Len(v.l) = 2
    /\ v.l[1].t = "float"
    /\ v.l[2].t = "float"

\* C12: major_ytick_spacing (likewise minor_ytick_spacing) given as a single
\* float is the tick spacing of both y-axes; given as a two-element sequence of
\* floats [a, b], a is the spacing of the left and b of the right y-axis, in a
\* call that completes.
C12_TickSpacingPerAxis ==
    fn = "single_plot" =>
        LET ma == params.major_ytick_spacing
            mi == params.minor_ytick_spacing
        IN  /\ (ma.t = "float" /\ Decorated) =>
                  axes.left_major_locator = ma /\ axes.right_major_locator = ma
            /\ (mi.t = "float" /\ Decorated) =>
                  axes.left_minor_locator = mi /\ axes.right_minor_locator = mi
            /\ (IsFloatPair(ma) /\ (mi = NoneV \/ mi.t = "float")) =>
                  /\ pc # "failed"
                  /\ Decorated =>
                        axes.left_major_locator = ma.l[1] /\ axes.right_major_locator = ma.l[2]
            /\ (IsFloatPair(mi) /\ (ma = NoneV \/ ma.t = "float")) =>
                  /\ pc # "failed"
                  /\ Decorated =>
                        axes.left_minor_locator = mi.l[1] /\ axes.right_minor_locator = mi.l[2]

\* a plotting call has returned normally and its caller has not resumed yet
Succeeded == pc = "done" /\ fn \in {"single_plot", "single_imshow", "single_hist"}

\* C13: a successful call of single_plot, single_imshow or single_hist exports
\* the figure it built if and only if params.filename is a string, to that path
\* and in the format params.img_fmt, and displays the figure if and only if
\* params.show is true.
C13_ExportAndDisplayOnRequest ==
    Succeeded =>
        /\ IsStr(params.filename) =>
              exports = <<[path |-> params.filename, format |-> params.img_fmt,
                           blank |-> FALSE]>>
        /\ ~IsStr(params.filename) => exports = <<>>
        /\ (params.show.n = 1) <=> (\E i \in 1..Len(calls) : calls[i] = "show")

\* the calls that create the drawing surface, add marks, decorate, export, display
SurfaceCalls == {"figure", "add_subplot", "twinx", "append_axes"}

MarkCalls == {"errorbar", "hist", "imshow"}

OutputCalls == {"savefig", "show"}

\* the stage of a call to the rendering library, in the order the stages must
\* follow each other
Stage(c) ==
    IF c \in SurfaceCalls THEN 1
    ELSE IF c \in MarkCalls THEN 2
    ELSE IF c = "savefig" THEN 4
    ELSE IF c = "show" THEN 5
    ELSE 3

\* C14: in a successful call the calls to the rendering library come in the
\* order figure creation, mark-adding calls, decoration calls, file export,
\* display: no export after the display, no mark after an export or a display.
C14_CallOrder ==
    Succeeded =>
        /\ calls[1] = "figure"
        /\ \A i \in 1..Len(calls), j \in 1..Len(calls) :
              i < j => Stage(calls[i]) <= Stage(calls[j])

\* C15: when a plotting call has ended, normally or by an error raised after it
\* created its figure, and so after any number of calls, no figure is open in
\* pyplot's registry.
C15_NoFigureLeftOpen ==
    (ncalls >= 1 /\ pc \in {"done", "failed", "idle"}) => openFigs = 0

FracEq(a, b) == a[1] * b[2] = b[1] * a[2]

FracSub(a, b) == <<a[1] * b[2] - b[1] * a[2], a[2] * b[2]>>

\* the values of the data set a histogram draw call was issued for
DataOf(d) == params.x_data_sets.l[d.set].l

\* the edges e, fractions, are equally spaced
EqualWidth(e) ==
    \A i \in 1..(Len(e) - 2) : FracEq(FracSub(e[i + 1], e[i]), FracSub(e[i + 2], e[i + 1]))

\* the edges e, roots [of, root] of one degree, are equally spaced in their
\* logarithms: each is the geometric mean of its neighbours
LogSpaced(e) ==
    /\ \A i \in 1..Len(e) : e[i].root = e[1].root
    /\ \A i \in 1..(Len(e) - 2) :
          FracEq(FracMul(e[i + 1].of, e[i + 1].of), FracMul(e[i].of, e[i + 2].of))

\* the root r == [of, root] is the number q
RootIs(r, q) == FracEq(r.of, FracPow(q, r.root))

\* C16: with an integer bin count b >= 1 every histogram draw call of a data set
\* gets b+1 bin edges, the first the minimum and the last the maximum of that
\* data set; the edges are equally spaced when x_log_scale is false and
\* log-spaced over the same range when it is true; a completed call has drawn
\* every data set.
C16_IntegerBinsSpanData ==
    (fn = "single_hist" /\ params.bins.t = "int") =>
        /\ \A i \in 1..Len(draws) :
              LET b == draws[i].bins
                  lo == <<SeqMin(DataOf(draws[i])), 1>>
                  hi == <<SeqMax(DataOf(draws[i])), 1>>
              IN  /\ b.num = params.bins.n + 1
                  /\ Len(b.edges) = params.bins.n + 1
                  /\ FracEq(b.first, lo)
                  /\ FracEq(b.last, hi)
                  /\ IF params.x_log_scale
                     THEN /\ b.space = "log"
                          /\ LogSpaced(b.edges)
                          /\ RootIs(b.edges[1], lo)
                          /\ RootIs(b.edges[Len(b.edges)], hi)
                     ELSE /\ b.space = "given"
                          /\ EqualWidth(b.edges)
                          /\ FracEq(b.edges[1], lo)
                          /\ FracEq(b.edges[Len(b.edges)], hi)
        /\ pc = "done" => Len(FillDraws) = Len(params.x_data_sets.l)

\* C16 witness: a completed call with bins=2 whose first data set, [3, 1], was
\* drawn with the edges 1, 2, 3
C16_Witness ==
    /\ pc = "done"
    /\ fn = "single_hist"
    /\ params.bins = IntV(2)
    /\ ~params.x_log_scale
    /\ Len(draws) >= 1
    /\ DataOf(draws[1]) = <<3, 1>>
    /\ draws[1].bins.edges = <<<<2, 2>>, <<4, 2>>, <<6, 2>>>>

\* the edges a draw call got are the numbers g, in ascending order
EdgesAre(b, g) ==
    /\ Len(b.edges) = Len(g)
    /\ IF b.space = "log"
       THEN \A i \in 1..Len(g) : RootIs(b.edges[i], NpSort(g)[i])
       ELSE NpSort(b.edges) = NpSort(g)

\* C17: with bins given as an array of edges every histogram draw call of every
\* data set gets the edges of that array, with x_log_scale false or true.
C17_GivenEdgesUsed ==
    (fn = "single_hist" /\ params.bins.t = "list") =>
        \A i \in 1..Len(draws) : EdgesAre(draws[i].bins, GivenEdges(params.bins))

\* a data set without values, or with all values equal
Degenerate(x) == x = <<>> \/ SeqMin(x) = SeqMax(x)

\* C18: with an integer bin count, a data set that has no values or only equal
\* values makes the call fail: no draw call is issued for it and the call does
\* not get past its draw loops.
C18_DegenerateDataFails ==
    (fn = "single_hist" /\ params.bins.t = "int") =>
        /\ \A i \in 1..Len(draws) : ~Degenerate(DataOf(draws[i]))
        /\ (\E k \in 1..Len(params.x_data_sets.l) : Degenerate(params.x_data_sets.l[k].l))
              => pc \notin {"decorate", "finish", "done"}

\* the left and the right list single_plot resolved option a to
ResolvedLists(a) ==
    CASE a = "colors" -> <<loc.left_colors, loc.right_colors>>
      [] a = "markers" -> <<loc.left_markers, loc.right_markers>>
      [] a = "linestyles" -> <<loc.left_linestyles, loc.right_linestyles>>

\* the resolved lists as an option value: the left list when R = 0, the pair
\* [left list, right list] when R > 0
FedBack(a) ==
    IF loc.R = 0 THEN ResolvedLists(a)[1]
    ELSE ListV(<<ResolvedLists(a)[1], ResolvedLists(a)[2]>>)

\* C19: resolving colors, markers or linestyles is idempotent: the resolved
\* per-series values, fed back as the option value, resolve to themselves,
\* whichever accepted shape (omitted, string, flat list, pair) they came from.
C19_ResolveIdempotent ==
    (fn = "single_plot" /\ Normalized) =>
        \A a \in {"colors", "markers", "linestyles"} :
            Accepted(params[a], loc.L, loc.R) =>
                ResolveStyle(FedBack(a), loc.L, loc.R)
                    = [err |-> "", left |-> ResolvedLists(a)[1], right |-> ResolvedLists(a)[2]]

\* C20: a new SingleImshowParams built with xticklabels (yticklabels) omitted has
\* as many xticklabels as xticks (yticklabels as yticks), whether xticks (yticks)
\* was omitted or given.
C20_DefaultTickLabelsMatchTicks ==
    pc = "constructed" =>
        /\ loc.xticklabels = NoneV => PyLen(params.xticklabels) = PyLen(params.xticks)
        /\ loc.yticklabels = NoneV => PyLen(params.yticklabels) = PyLen(params.yticks)

\* the draw loops of the running single_plot call have ended
LoopsDone == pc \in {"lines", "decorate", "finish", "done"}

\* the handles of the first n supplied series, the left group before the right
\* one, each with the label its series was drawn with
SuppliedHandles(n) ==
    LET on == SuppliedOn
    IN  [i \in 1..n |-> [ax |-> on[i][1], series |-> on[i][2], label |-> draws[i].label]]

\* C21: single_plot issues one draw call per series, the left group in index
\* order and then the right group in index order, and collects one handle per
\* draw call in that order (L+R handles once the loops have ended); the legend,
\* when one is built, lists these handles in that order.
C21_DrawsAndHandlesInGroupOrder ==
    (fn = "single_plot" /\ Normalized /\ (DataFlat \/ DataNested)) =>
        LET on == SuppliedOn
            handles == SuppliedHandles(Len(draws))
        IN  /\ Len(draws) <= Len(on)
            /\ DrawnOn = SubSeq(on, 1, Len(draws))
            /\ plot_handles = handles
            /\ LoopsDone =>
                  /\ Len(draws) = Len(on)
                  /\ Len(plot_handles) = loc.L + loc.R
            /\ Decorated =>
                  IF loc.no_legend THEN axes.legend = Unset
                  ELSE /\ axes.legend.handles = handles
                       /\ axes.legend.labels = [i \in 1..Len(draws) |-> draws[i].label]

\* C21 witness: a completed dual-axis call whose legend lists the handles of
\* its two left series and then of its right series, each under its own label
C21_Witness ==
    /\ pc = "done"
    /\ fn = "single_plot"
    /\ DataNested
    /\ IsPair(params.legend_labels)
    /\ Len(plot_handles) = 3
    /\ axes.legend # Unset
    /\ [i \in 1..3 |-> <<axes.legend.handles[i].ax, axes.legend.handles[i].series>>]
          = <<<<"ax_1", 1>>, <<"ax_1", 2>>, <<"ax_2", 3>>>>
    /\ axes.legend.labels[1] # axes.legend.labels[2]

\* C22: in single_hist with N data sets the filled calls of the N data sets come
\* first, in order; with cumulative false each data set then gets one
\* outline-only call without a face colour, 2N draw calls in all; in
\* cumulative (step) mode there is no outline-only call and N draw calls in all.
C22_FillAndOutlineCalls ==
    fn = "single_hist" =>
        LET N == Len(params.x_data_sets.l)
        IN  /\ Len(draws) <= (IF params.cumulative THEN N ELSE 2 * N)
            /\ \A i \in 1..Len(draws) :
                  IF i <= N
                  THEN draws[i].kind = "fill" /\ draws[i].set = i
                  ELSE /\ draws[i].kind = "outline"
                       /\ draws[i].set = i - N
                       /\ draws[i].facecolor = StrV(<<"N", "o", "n", "e">>)
            /\ pc \in {"decorate", "finish", "done"} =>
                  Len(draws) = (IF params.cumulative THEN N ELSE 2 * N)

\* C22 witness: a completed bar histogram of two data sets with its four draw
\* calls, and the filled calls coloured
C22_Witness ==
    /\ pc = "done"
    /\ fn = "single_hist"
    /\ ~params.cumulative
    /\ IsStr(params.colors)
    /\ Len(params.x_data_sets.l) = 2
    /\ Len(draws) = 4
    /\ draws[3].kind = "outline"

\* C23: in bar mode the outline-only call of a data set gets the bin edges of
\* that data set's filled call, whether bins is an integer, a sorted array or an
\* unsorted array.
C23_OutlineUsesFillEdges ==
    (fn = "single_hist" /\ ~params.cumulative) =>
        \A i \in 1..Len(draws), j \in 1..Len(draws) :
            (/\ draws[i].kind = "fill"
             /\ draws[j].kind = "outline"
             /\ draws[i].set = draws[j].set)
            => draws[j].bins = draws[i].bins

\* the names of the three plotting functions
PlottingFunctions == {"single_plot", "single_imshow", "single_hist"}

\* C24: every plotting call sets text.usetex to True before it creates its
\* figure and nothing sets it to another value: once a first plotting call has
\* started the flag is True, while a call runs, after it returned and after it
\* failed, and whenever a figure exists.
C24_UsetexTrueOnceCalled ==
    /\ ncalls >= 1 => usetex = TRUE
    /\ fn \in PlottingFunctions => usetex = TRUE
    /\ (openFigs > 0 \/ calls # <<>>) => usetex = TRUE

\* C24 witness: the second call of a run, a single_imshow call, has failed
\* after a first call, and the flag is True
C24_Witness ==
    /\ ncalls = 2
    /\ fn = "single_imshow"
    /\ pc = "failed"
    /\ usetex = TRUE

\* the parameter object of the running call as the caller gave it
GivenParams == AsGiven(params, given)

\* C25: a plotting call leaves the caller's parameter object as it was: when
\* single_plot, single_imshow or single_hist has returned, every attribute of
\* params, vline_kwargs_set and hline_kwargs_set included, has the value the
\* caller gave it before the call.
C25_ParamsUnchangedByCall ==
    Succeeded => params = GivenParams

\* the calls of one kind among the line calls of the running call that added a line
LinesOf(kind) == SelectSeq(axes.lines, LAMBDA c : c.kind = kind)

\* the running single_plot call has got past its two line loops
LinesDone == fn = "single_plot" /\ pc \in {"decorate", "finish", "done"}

\* C26: over calls of single_plot on one parameter object whose vlines (hlines)
\* the caller reassigns between calls and whose vline_kwargs_set
\* (hline_kwargs_set) the caller never gives, each call that gets past its line
\* loops has added len(params.vlines) vertical (len(params.hlines) horizontal)
\* lines, for the value of vlines (hlines) at that call.
C26_LinesFollowCurrentValue ==
    LinesDone =>
        /\ GivenParams.vline_kwargs_set = NoneV =>
              Len(LinesOf("axvline")) = PyLen(params.vlines)
        /\ GivenParams.hline_kwargs_set = NoneV =>
              Len(LinesOf("axhline")) = PyLen(params.hlines)

\* the keyword arguments of line i when the caller gave the set kw
GivenKwargs(kw, i) == IF kw = NoneV THEN DictV(<<>>) ELSE kw.l[i]

\* the caller gave no kwargs set, or one with an entry per line
KwargsFit(kw, lines) == kw = NoneV \/ PyLen(kw) = PyLen(lines)

\* C27: the first single_plot call on a parameter object adds one vertical
\* line per entry v of vlines, at x = v, and then one horizontal line per entry
\* h of hlines, at y = h, each with the keyword arguments of its index in the
\* kwargs set the caller gave (none when the caller gave no set); the line
\* loops do not end the call.
C27_OneLinePerEntry ==
    (/\ fn = "single_plot"
     /\ ncalls = 1
     /\ KwargsFit(GivenParams.vline_kwargs_set, GivenParams.vlines)
     /\ KwargsFit(GivenParams.hline_kwargs_set, GivenParams.hlines))
    => /\ ~(pc = "failed" /\ err = "AttributeError")
       /\ pc \in {"decorate", "finish", "done"} =>
             axes.lines =
                [i \in 1..PyLen(GivenParams.vlines) |->
                    LineCall("axvline", "x", GivenParams.vlines.l[i],
                             GivenKwargs(GivenParams.vline_kwargs_set, i))]
                \o [i \in 1..PyLen(GivenParams.hlines) |->
                      LineCall("axhline", "y", GivenParams.hlines.l[i],
                               GivenKwargs(GivenParams.hline_kwargs_set, i))]

\* C28: single_imshow sets the y limits to (nrows - 0.5, -0.5), nrows being
\* z.shape[0], so that every row of z is shown, whether yticks was omitted or
\* given with any number of ticks (the limits are kept in halves).
C28_YLimitsShowAllRows ==
    (fn = "single_imshow" /\ Decorated) =>
        axes.ylim = ListV(<<IntV(2 * params.z.l[1] - 1), IntV(-1)>>)

\* the values object i shows for its list- and dict-valued options
View(os, ds, i) == [o \in MutableOptions(os[i].cls) |-> AttrValue(os, ds, i, o)]

\* C29: parameter objects constructed with default arguments share no option
\* value: a change in place made through one object changes the option values
\* of no other object, and an object constructed with defaults, whenever it is
\* constructed, has the values the signature of __init__ shows.
C29_DefaultsNotShared ==
    [][/\ \A i \in 1..Len(objs), j \in 1..Len(objs) :
             i # j => \/ View(objs', defaults', i) = View(objs, defaults, i)
                      \/ View(objs', defaults', j) = View(objs, defaults, j)
       /\ Len(objs') > Len(objs) =>
             \A o \in MutableOptions(objs'[Len(objs')].cls) :
                AttrValue(objs', defaults', Len(objs'), o)
                    = LiteralDefaults[objs'[Len(objs')].cls][o]]_vars

====
